---- MODULE Spec2Model ----
(***************************************************************************)
(* Model of the crawl controller scrapeEmailsFromWebsite                   *)
(* (src/scrapers/websiteCrawler.ts) and of the helpers it uses (getDomain, *)
(* normalizeUrl, extractLinks), of the command line that calls it (cli.ts) *)
(* and of createBrowser (utils/browserFactory.ts).                         *)
(*                                                                         *)
(* A URL string is modelled by what the WHATWG URL parser makes of it:     *)
(*   kind  "abs"  an absolute URL ("https://a", "https://a/p#x")           *)
(*         "rel"  a relative reference ("/p", "#x"): parseable only        *)
(*                against a base                                           *)
(*         "bad"  a string new URL() rejects even with a base              *)
(*   host  the hostname, path the path as written ("" when the string has  *)
(*         none, as in "https://a"), frag whether it carries a #fragment.  *)
(* The web is the environment: what a fetch returns (status, body, links,  *)
(* emails), whether it answers at all, and whether a callback throws, are  *)
(* chosen nondeterministically at the step that asks for them.             *)
(***************************************************************************)
EXTENDS Integers, Sequences, FiniteSets, TLC

\* ------------------------------------------------------------------ bounds
MaxDepthBound == 2
MaxPagesBound == 4
MaxLinks == 2
\* options.timeout, in ticks of the model's clock
MaxTimeout == 1
\* how long the model watches a fetch that has no deadline of its own
MaxWait == MaxTimeout + 1

\* ------------------------------------------------------------ URL strings
Url(k, h, p, f) == [kind |-> k, host |-> h, path |-> p, frag |-> f]

\* the value null of normalizeUrl
Null == Url("null", "", "", FALSE)

\* start URLs a caller can pass: "https://a#x", "https://a/", and a string
\* that is no URL
StartUrls ==
  { Url("abs", "a", "", TRUE), Url("abs", "a", "/", FALSE),
    Url("bad", "", "", FALSE) }

\* href values a page can carry: "/p#x", "https://a", "https://b/p", and a
\* malformed one
Hrefs ==
  { Url("rel", "", "/p", TRUE), Url("abs", "a", "", FALSE),
    Url("abs", "b", "/p", FALSE), Url("bad", "", "", FALSE) }

\* the addresses a page can show
Emails == {"e1"}

\* a getDomain that reads urlObj.protocol instead of urlObj.hostname
getDomainProtocol(url) == IF url.kind = "abs" THEN "https:" ELSE ""

\* getDomain: hostname of the parsed URL, '' when new URL(url) throws
getDomain(url) == IF url.kind = "abs" THEN url.host ELSE ""

\* href of a parsed absolute URL: an empty path is serialised as "/"
Href(host, path) == Url("abs", host, IF path = "" THEN "/" ELSE path, FALSE)

\* normalizeUrl: resolve url against baseUrl, drop the fragment, return href;
\* null when either new URL() throws
normalizeUrl(url, baseUrl) ==
  IF baseUrl.kind # "abs" THEN Null
  ELSE IF url.kind = "abs" THEN Href(url.host, url.path)
  ELSE IF url.kind = "rel"
         THEN Href(baseUrl.host, IF url.path = "" THEN baseUrl.path ELSE url.path)
  ELSE Null

\* a Set keeps insertion order and ignores a value it already holds
SetAdd(seq, x) ==
  IF \E i \in 1..Len(seq) : seq[i] = x THEN seq ELSE Append(seq, x)

RECURSIVE LinksFrom(_, _, _)
LinksFrom(anchors, baseUrl, links) ==
  IF anchors = <<>> THEN links
  ELSE LET normalized == normalizeUrl(Head(anchors), baseUrl)
       IN  LinksFrom(Tail(anchors), baseUrl,
                     IF normalized # Null THEN SetAdd(links, normalized) ELSE links)

\* extractLinks: the normalized href of every anchor, in document order
extractLinks(html, baseUrl) == LinksFrom(html.anchors, baseUrl, <<>>)

\* extractAndNormalizeEmails: the emails the text extractor finds in a body
extractAndNormalizeEmails(html) == html.emails

\* the sequences of at most n different elements of S
SeqsUpTo(S, n) ==
  UNION { { q \in [1..k -> S] : \A i, j \in 1..k : q[i] = q[j] => i = j } : k \in 0..n }

\* email sets one page can show
PageEmails == SUBSET Emails

\* bodies a server can return: the anchors in document order, no href
\* written twice, and the emails in the text
Htmls == { [anchors |-> a, emails |-> e] : a \in SeqsUpTo(Hrefs, MaxLinks), e \in PageEmails }

\* ------------------------------------------------------------------ state
VARIABLES
  startUrl,     \* argument startUrl
  options,      \* argument options, defaults applied
  allEmails,    \* Set allEmails
  visited,      \* Set visited
  toVisit,      \* Array toVisit
  pc,           \* position of the async function
  cur,          \* { url, depth } of the entry being processed
  error,        \* exception in flight inside the try block, "none" if none
  elapsed,      \* time the current fetch has been waited for
  openPages,    \* pages obtained from newPage() with close() not yet called
  fetched,      \* history: { url, depth } handed to a fetch strategy, in order
  merged,       \* history: URLs whose emails were merged into allEmails
  extracted,    \* history: the emails extracted from those pages
  failures,     \* history: [url, stage] of each exception raised in the try
  errorCalls,   \* history: URLs passed to onError
  logged,       \* history: URLs written by console.error
  pageCalls,    \* history: URLs passed to onPageVisited
  outcome,      \* settlement of the promise: value or rejection reason
  command,      \* cli.ts: the subcommand run, "none" for a library call
  cliPc,        \* cli.ts: position of the command's action
  cliError,     \* cli.ts: exception in flight in the action, "none" if none
  modules,      \* what import() and launch() make of the two engines
  created,      \* what createBrowser() returned or threw
  engine,       \* the browser engine: "none", "open" or "closed"
  closeCalls,   \* number of calls of browser.close()
  exitCode      \* exit code of the process, Running until it ends

vars == << startUrl, options, allEmails, visited, toVisit, pc, cur, error,
           elapsed, openPages, fetched, merged, extracted, failures, errorCalls,
           logged, pageCalls, outcome, command, cliPc, cliError, modules,
           created, engine, closeCalls, exitCode >>

\* the state of the caller, which the crawler never writes
cli == << command, cliPc, cliError, modules, created, engine, closeCalls,
          exitCode >>

\* the arguments of the crawler and the state of its caller
ctl == << startUrl, options, cli >>
hist == << fetched, merged, extracted, failures, errorCalls, logged, pageCalls >>

startDomain == getDomain(startUrl)

OptionSets ==
  [ maxDepth : -1..MaxDepthBound,
    maxPages : 0..MaxPagesBound,
    sameDomainOnly : BOOLEAN,
    timeout : {MaxTimeout},
    useBrowser : BOOLEAN,
    browser : BOOLEAN,          \* whether a browser handle was supplied
    onPageVisited : BOOLEAN,    \* whether the callback was supplied
    onError : BOOLEAN ]

NoEntry == [url |-> Null, depth |-> 0]
Pending == [state |-> "pending", value |-> {}, reason |-> "none"]

\* the process has not ended
Running == -1

\* the engines' state before createBrowser() has looked at them
Unread == [playwright |-> "unread", puppeteer |-> "unread"]

\* createBrowser() has not been called
NoBrowser ==
  [kind |-> "none", engine |-> "none", message |-> "none",
   imports |-> <<>>, launches |-> <<>>]

\* a library call: no command line; the handle in options.browser, when
\* supplied, is that of an open engine
LibraryCall ==
  /\ command = "none"
  /\ cliPc = "none"
  /\ cliError = "none"
  /\ modules = Unread
  /\ created = NoBrowser
  /\ engine = IF options.browser THEN "open" ELSE "none"
  /\ closeCalls = 0
  /\ exitCode = Running

Init ==
  /\ startUrl \in StartUrls
  /\ options \in OptionSets
  /\ allEmails = {}
  /\ visited = {}
  /\ toVisit = << [url |-> startUrl, depth |-> 0] >>
  /\ pc = "loop"
  /\ cur = NoEntry
  /\ error = "none"
  /\ elapsed = 0
  /\ openPages = 0
  /\ fetched = <<>>
  /\ merged = {}
  /\ extracted = {}
  /\ failures = {}
  /\ errorCalls = {}
  /\ logged = {}
  /\ pageCalls = {}
  /\ outcome = Pending
  /\ LibraryCall

\* --------------------------------------------------------------- the loop
\* a loop test that compares with <= instead of <
LoopCondOffByOne == Len(toVisit) > 0 /\ Cardinality(visited) <= options.maxPages

\* line 88: the loop condition
LoopCond == Len(toVisit) > 0 /\ Cardinality(visited) < options.maxPages

\* line 160: the loop condition fails, the function returns allEmails
Return ==
  /\ pc = "loop"
  /\ ~LoopCond
  /\ pc' = "done"
  /\ outcome' = [state |-> "resolved", value |-> allEmails, reason |-> "none"]
  /\ UNCHANGED << ctl, allEmails, visited, toVisit, cur, error,
                  elapsed, openPages, hist >>

\* the filters without the visited test of lines 91-93
SkippedNoVisited(entry) ==
  \/ entry.depth > options.maxDepth
  \/ (options.sameDomainOnly /\ getDomain(entry.url) # startDomain)

\* lines 91-102: the three filters applied to a dequeued entry
Skipped(entry) ==
  \/ entry.url \in visited
  \/ entry.depth > options.maxDepth
  \/ (options.sameDomainOnly /\ getDomain(entry.url) # startDomain)

\* a strategy choice that trusts useBrowser without looking at the handle
BrowserModeIgnoresHandle == options.useBrowser

\* line 110: which strategy fetches the page
BrowserMode == options.useBrowser /\ options.browser

\* a continue that leaves the rejected entry at the head of the array
SkipKeepsEntry ==
  /\ pc = "loop"
  /\ LoopCond
  /\ Skipped(Head(toVisit))
  /\ UNCHANGED vars

\* lines 89-102: dequeue an entry that a filter rejects
Skip ==
  /\ pc = "loop"
  /\ LoopCond
  /\ Skipped(Head(toVisit))
  /\ toVisit' = Tail(toVisit)
  /\ UNCHANGED << ctl, allEmails, visited, pc, cur, error,
                  elapsed, openPages, hist, outcome >>

\* lines 89-110, 120: dequeue an entry that passes, mark it visited and start
\* its fetch (HTTP: fetch(url) is called at once; browser: newPage() first)
Visit ==
  /\ pc = "loop"
  /\ LoopCond
  /\ ~Skipped(Head(toVisit))
  /\ toVisit' = Tail(toVisit)
  /\ cur' = Head(toVisit)
  /\ visited' = visited \cup {Head(toVisit).url}
  /\ error' = "none"
  /\ elapsed' = 0
  /\ IF BrowserMode
       THEN /\ pc' = "newPage"
            /\ fetched' = fetched
       ELSE /\ pc' = "fetch"
            /\ fetched' = Append(fetched, Head(toVisit))
  /\ UNCHANGED << ctl, allEmails, openPages, merged, extracted, failures,
                  errorCalls, logged, pageCalls, outcome >>

\* ------------------------------------------------------------ exceptions
\* the stage of the iteration an exception belongs to: raised by the fetch
\* strategy before the merge, or by onPageVisited after it
Stage(e) == IF e = "onPageVisited" THEN "callback" ELSE "fetch"

\* an exception e is raised inside the try block of lines 106-148
Throw(e) ==
  /\ error' = e
  /\ failures' = failures \cup {[url |-> cur.url, stage |-> Stage(e)]}

\* the locals of one iteration go out of scope
EndIteration ==
  /\ cur' = NoEntry
  /\ error' = "none"
  /\ elapsed' = 0

\* ------------------------------------------------------- browser strategy
\* a page closed on the success path only: the exception goes straight to
\* the catch
OnPageThrowSkipsFinally == "catch"

\* lines 112-118: where an exception raised between newPage() and close()
\* goes first: the finally block
OnPageThrow == "close"

\* line 111: await browser.newPage()
NewPage ==
  /\ pc = "newPage"
  /\ \/ /\ openPages' = openPages + 1
        /\ pc' = "goto"
        /\ fetched' = Append(fetched, cur)
        /\ UNCHANGED << error, failures >>
     \/ /\ Throw("newPage")
        /\ pc' = "catch"
        /\ UNCHANGED << openPages, fetched >>
  /\ UNCHANGED << ctl, allEmails, visited, toVisit, cur, elapsed,
                  merged, extracted, errorCalls, logged, pageCalls, outcome >>

\* line 113: page.goto(url, { waitUntil, timeout }) is still waiting
GotoWait ==
  /\ pc = "goto"
  /\ elapsed < options.timeout
  /\ elapsed' = elapsed + 1
  /\ UNCHANGED << ctl, allEmails, visited, toVisit, pc, cur, error,
                  openPages, hist, outcome >>

\* line 113: the navigation deadline passes, goto rejects; the wait is over
GotoTimeout ==
  /\ pc = "goto"
  /\ elapsed = options.timeout
  /\ Throw("timeout")
  /\ pc' = OnPageThrow
  /\ elapsed' = 0
  /\ UNCHANGED << ctl, allEmails, visited, toVisit, cur, openPages, fetched,
                  merged, extracted, errorCalls, logged, pageCalls, outcome >>

\* line 113: the navigation ends before the deadline, loaded or failed;
\* a string that is no URL cannot be navigated to
Goto ==
  /\ pc = "goto"
  /\ \/ /\ cur.url.kind = "abs"
        /\ pc' = "content"
        /\ UNCHANGED << error, failures >>
     \/ /\ Throw("navigation")
        /\ pc' = OnPageThrow
  /\ elapsed' = 0
  /\ UNCHANGED << ctl, allEmails, visited, toVisit, cur, openPages, fetched,
                  merged, extracted, errorCalls, logged, pageCalls, outcome >>

\* line 114: html = await page.content()
Content ==
  /\ pc = "content"
  /\ \/ /\ pc' = "scrape"
        /\ UNCHANGED << error, failures >>
     \/ /\ Throw("content")
        /\ pc' = OnPageThrow
  /\ UNCHANGED << ctl, allEmails, visited, toVisit, cur, elapsed,
                  openPages, fetched, merged, extracted, errorCalls, logged, pageCalls,
                  outcome >>

\* line 115: emails = await scrapeEmailsFromPage(page, url, ...)
ScrapePage ==
  /\ pc = "scrape"
  /\ \/ /\ pc' = "close"
        /\ UNCHANGED << error, failures >>
     \/ /\ Throw("scrape")
        /\ pc' = OnPageThrow
  /\ UNCHANGED << ctl, allEmails, visited, toVisit, cur, elapsed,
                  openPages, fetched, merged, extracted, errorCalls, logged, pageCalls,
                  outcome >>

\* a finally that shuts the browser down along with the page
ClosePageAndBrowser ==
  /\ pc = "close"
  /\ openPages' = openPages - 1
  /\ engine' = "closed"
  /\ closeCalls' = closeCalls + 1
  /\ \/ /\ pc' = IF error = "none" THEN "process" ELSE "catch"
        /\ UNCHANGED << error, failures >>
     \/ /\ Throw("close")
        /\ pc' = "catch"
  /\ UNCHANGED << startUrl, options, command, cliPc, cliError, modules, created,
                  exitCode, allEmails, visited, toVisit, cur, elapsed,
                  fetched, merged, extracted, errorCalls, logged, pageCalls, outcome >>

\* lines 116-118: finally { await page.close() }; an exception thrown by
\* close() replaces the one in flight, otherwise that one goes on to catch
ClosePage ==
  /\ pc = "close"
  /\ openPages' = openPages - 1
  /\ \/ /\ pc' = IF error = "none" THEN "process" ELSE "catch"
        /\ UNCHANGED << error, failures >>
     \/ /\ Throw("close")
        /\ pc' = "catch"
  /\ UNCHANGED << ctl, allEmails, visited, toVisit, cur, elapsed,
                  fetched, merged, extracted, errorCalls, logged, pageCalls, outcome >>

\* ---------------------------------------------------------- HTTP strategy
\* lines 120-124: fetch(url, { headers }) is still waiting; no deadline is
\* passed to it, so options.timeout does not end the wait
FetchWait ==
  /\ pc = "fetch"
  /\ elapsed < MaxWait
  /\ elapsed' = elapsed + 1
  /\ UNCHANGED << ctl, allEmails, visited, toVisit, pc, cur, error,
                  openPages, hist, outcome >>

\* lines 120-127: fetch settles: a 2xx response, a non-2xx response (the
\* code throws 'HTTP error!'), or a rejection; fetch rejects a string that
\* is no URL
Fetch ==
  /\ pc = "fetch"
  /\ \/ /\ cur.url.kind = "abs"
        /\ pc' = "text"
        /\ UNCHANGED << error, failures >>
     \/ /\ cur.url.kind = "abs"
        /\ Throw("status")
        /\ pc' = "catch"
     \/ /\ Throw("network")
        /\ pc' = "catch"
  /\ elapsed' = 0
  /\ UNCHANGED << ctl, allEmails, visited, toVisit, cur, openPages, fetched,
                  merged, extracted, errorCalls, logged, pageCalls, outcome >>

\* line 128: html = await response.text()
Text ==
  /\ pc = "text"
  /\ \/ /\ pc' = "process"
        /\ UNCHANGED << error, failures >>
     \/ /\ Throw("body")
        /\ pc' = "catch"
  /\ UNCHANGED << ctl, allEmails, visited, toVisit, cur, elapsed, openPages,
                  fetched, merged, extracted, errorCalls, logged, pageCalls, outcome >>

\* ------------------------------------------------- processing of one page
\* a push test that forgets the domain
PushableAnyDomain(link) == link \notin visited

\* line 144: the test a discovered link must pass to be pushed
Pushable(link) ==
  /\ link \notin visited
  /\ (~options.sameDomainOnly \/ getDomain(link) = startDomain)

\* a push that gives a link the depth of its page instead of depth + 1
RECURSIVE PushAllSameDepth(_, _, _)
PushAllSameDepth(queue, links, depth) ==
  IF links = <<>> THEN queue
  ELSE PushAllSameDepth(IF Pushable(Head(links))
                          THEN Append(queue, [url |-> Head(links), depth |-> depth])
                          ELSE queue,
                        Tail(links), depth)

RECURSIVE PushAll(_, _, _)
PushAll(queue, links, depth) ==
  IF links = <<>> THEN queue
  ELSE PushAll(IF Pushable(Head(links))
                 THEN Append(queue, [url |-> Head(links), depth |-> depth + 1])
                 ELSE queue,
               Tail(links), depth)

\* a depth test that compares with <= instead of <
FollowsInclusive(depth) == depth <= options.maxDepth

\* line 141: whether the links of a page at this depth are followed
Follows(depth) == depth < options.maxDepth

\* links put in front of the frontier (unshift) instead of behind it (push)
EnqueuedFirst(html) ==
  IF Follows(cur.depth)
    THEN PushAll(<<>>, extractLinks(html, cur.url), cur.depth) \o toVisit
    ELSE toVisit

\* lines 141-148: the frontier after the links of the current page
Enqueued(html) ==
  IF Follows(cur.depth)
    THEN PushAll(toVisit, extractLinks(html, cur.url), cur.depth)
    ELSE toVisit

\* the locals html and emails, written at lines 114-115 or 128-129, are read
\* only at lines 133-142: their values are drawn where they are read.  Over
\* HTTP the emails are those of the body; in the browser they come from the
\* page context and need not be those of the html
PageResults ==
  IF BrowserMode
    THEN { [html |-> h, emails |-> e] : h \in { g \in Htmls : g.emails = {} }, e \in PageEmails }
    ELSE { [html |-> h, emails |-> extractAndNormalizeEmails(h)] : h \in Htmls }

\* what lines 133-148 make of a page: the emails to merge and the frontier
\* after its links
PageOutcomes ==
  { [emails |-> r.emails, toVisit |-> Enqueued(r.html)] : r \in PageResults }

\* a merge that keeps the emails of the last page only
MergeReplaces(emails) == emails

\* line 133: emails.forEach((email) => allEmails.add(email))
Merge(emails) == allEmails \cup emails

\* lines 133-148: merge the emails, notify, enqueue the links
ProcessWith(r) ==
  /\ pc = "process"
  /\ allEmails' = Merge(r.emails)
  /\ extracted' = extracted \cup r.emails
  /\ toVisit' = r.toVisit
  /\ merged' = merged \cup {cur.url}
  /\ pageCalls' = IF options.onPageVisited THEN pageCalls \cup {cur.url}
                                           ELSE pageCalls
  /\ pc' = "loop"
  /\ EndIteration
  /\ UNCHANGED << ctl, visited, openPages, fetched, failures, errorCalls,
                  logged, outcome >>

Process ==
  /\ pc = "process"
  /\ \E r \in PageOutcomes : ProcessWith(r)

\* an onPageVisited called after the links were enqueued: when it throws the
\* links of the page are already in the frontier
ProcessThrowsAfterLinks ==
  /\ pc = "process"
  /\ options.onPageVisited
  /\ \E r \in PageOutcomes :
       /\ allEmails' = Merge(r.emails)
       /\ extracted' = extracted \cup r.emails
       /\ toVisit' = r.toVisit
  /\ merged' = merged \cup {cur.url}
  /\ pageCalls' = pageCalls \cup {cur.url}
  /\ Throw("onPageVisited")
  /\ pc' = "catch"
  /\ UNCHANGED << ctl, visited, cur, elapsed, openPages,
                  fetched, errorCalls, logged, outcome >>

\* lines 133-138: the emails are merged, then onPageVisited throws
ProcessThrows ==
  /\ pc = "process"
  /\ options.onPageVisited
  /\ \E emails \in { r.emails : r \in PageResults } :
       /\ allEmails' = Merge(emails)
       /\ extracted' = extracted \cup emails
  /\ merged' = merged \cup {cur.url}
  /\ pageCalls' = pageCalls \cup {cur.url}
  /\ Throw("onPageVisited")
  /\ pc' = "catch"
  /\ UNCHANGED << ctl, visited, toVisit, cur, elapsed, openPages,
                  fetched, errorCalls, logged, outcome >>

\* ------------------------------------------------------ the per-page catch
\* a catch that reports the failure and then gives up the crawl
CatchStops ==
  /\ pc = "catch"
  /\ IF options.onError
       THEN /\ errorCalls' = errorCalls \cup {cur.url}
            /\ logged' = logged
       ELSE /\ logged' = logged \cup {cur.url}
            /\ errorCalls' = errorCalls
  /\ pc' = "done"
  /\ outcome' = [state |-> "resolved", value |-> allEmails, reason |-> "none"]
  /\ EndIteration
  /\ UNCHANGED << ctl, allEmails, visited, toVisit, openPages, fetched, merged,
                  extracted, failures, pageCalls >>

\* a catch that swallows the failure without reporting it
CatchSilent ==
  /\ pc = "catch"
  /\ pc' = "loop"
  /\ EndIteration
  /\ UNCHANGED << ctl, allEmails, visited, toVisit, openPages, fetched, merged,
                  extracted, failures, errorCalls, logged, pageCalls, outcome >>

\* a catch that reports the failure and throws it again
CatchRethrows ==
  /\ pc = "catch"
  /\ IF options.onError
       THEN /\ errorCalls' = errorCalls \cup {cur.url}
            /\ logged' = logged
       ELSE /\ logged' = logged \cup {cur.url}
            /\ errorCalls' = errorCalls
  /\ pc' = "rejected"
  /\ outcome' = [state |-> "rejected", value |-> {}, reason |-> error]
  /\ EndIteration
  /\ UNCHANGED << ctl, allEmails, visited, toVisit, openPages, fetched, merged,
                  extracted, failures, pageCalls >>

\* lines 149-157: onError(url, errorObj) returns, or the error is logged;
\* the loop goes on
Catch ==
  /\ pc = "catch"
  /\ IF options.onError
       THEN /\ errorCalls' = errorCalls \cup {cur.url}
            /\ logged' = logged
       ELSE /\ logged' = logged \cup {cur.url}
            /\ errorCalls' = errorCalls
  /\ pc' = "loop"
  /\ EndIteration
  /\ UNCHANGED << ctl, allEmails, visited, toVisit, openPages, fetched, merged,
                  extracted, failures, pageCalls, outcome >>

\* line 152: onError itself throws; nothing encloses the catch block, so the
\* promise rejects with the callback's exception
CatchThrows ==
  /\ pc = "catch"
  /\ options.onError
  /\ errorCalls' = errorCalls \cup {cur.url}
  /\ pc' = "rejected"
  /\ outcome' = [state |-> "rejected", value |-> {}, reason |-> "onError"]
  /\ EndIteration
  /\ UNCHANGED << ctl, allEmails, visited, toVisit, openPages, fetched, merged,
                  extracted, failures, logged, pageCalls >>

\* ---------------------------------------------------------- specification
Next ==
  \/ Return
  \/ Skip
  \/ Visit
  \/ NewPage
  \/ GotoWait
  \/ GotoTimeout
  \/ Goto
  \/ Content
  \/ ScrapePage
  \/ ClosePage
  \/ FetchWait
  \/ Fetch
  \/ Text
  \/ Process
  \/ ProcessThrows
  \/ Catch
  \/ CatchThrows

Spec == Init /\ [][Next]_vars

\* the calls whose steps differ: both callbacks supplied, and the browser
\* handle supplied exactly when useBrowser is set.  A run without a callback
\* takes the steps of a run whose callback returns, and a run with useBrowser
\* or the handle alone takes the steps of an HTTP run
InitLive ==
  /\ Init
  /\ options.onPageVisited
  /\ options.onError
  /\ options.useBrowser = options.browser

\* every step but the processing of a page: awaited operations settle and
\* synchronous code runs on
Settle ==
  \/ Return
  \/ Skip
  \/ Visit
  \/ NewPage
  \/ GotoWait
  \/ GotoTimeout
  \/ Goto
  \/ Content
  \/ ScrapePage
  \/ ClosePage
  \/ FetchWait
  \/ Fetch
  \/ Text
  \/ ProcessThrows
  \/ Catch
  \/ CatchThrows

\* A page without address or link is one of the PageOutcomes in every state.
EmptyPage == [emails |-> {}, toVisit |-> toVisit]

\* The synchronous block of lines 133-148 runs once the page has arrived.  It
\* is enabled exactly when ProcessWith(EmptyPage) is, and every Process step
\* leaves "process", so weak fairness of that one instance says that control
\* does not rest at line 133: the same condition as WF_vars(Process).
Fairness == WF_vars(Settle) /\ WF_vars(ProcessWith(EmptyPage))

LiveSpec == InitLive /\ [][Next]_vars /\ Fairness

\* ------------------------------------------------------- browserFactory.ts
\* what the dynamic import and the launch make of an engine on the machine:
\* not installed, installed and launching, installed and failing to launch
ModuleStates == {"absent", "launches", "fails"}
ModuleSets == [playwright : ModuleStates, puppeteer : ModuleStates]

\* lines 172-183, 187-197: an imported engine is launched; its browser is
\* returned, or 'Failed to launch <engine> browser' is thrown
Launch(name, state, imports) ==
  [kind |-> IF state = "launches" THEN "browser" ELSE "error",
   engine |-> name,
   message |-> IF state = "launches" THEN "none" ELSE "Failed to launch",
   imports |-> imports,
   launches |-> <<name>>]

\* lines 199-205: 'No browser library found'
NoneFound(imports) ==
  [kind |-> "error", engine |-> "none", message |-> "No browser library found",
   imports |-> imports, launches |-> <<>>]

\* a createBrowser that goes on to Puppeteer when Playwright fails to launch
createBrowserFallsBack(m) ==
  IF m.playwright = "launches"
    THEN Launch("playwright", m.playwright, <<"playwright">>)
  ELSE IF m.puppeteer # "absent"
    THEN Launch("puppeteer", m.puppeteer, <<"playwright", "puppeteer">>)
  ELSE IF m.playwright = "fails"
    THEN Launch("playwright", m.playwright, <<"playwright", "puppeteer">>)
  ELSE NoneFound(<<"playwright", "puppeteer">>)

\* createBrowser: the browser returned or the error thrown, with the engines
\* it imported and launched on the way
createBrowser(m) ==
  IF m.playwright # "absent"
    THEN Launch("playwright", m.playwright, <<"playwright">>)
  ELSE IF m.puppeteer # "absent"
    THEN Launch("puppeteer", m.puppeteer, <<"playwright", "puppeteer">>)
  ELSE NoneFound(<<"playwright", "puppeteer">>)

\* ------------------------------------------------------------------ cli.ts
\* the state of the crawler that the command's own steps leave alone
crawl == << allEmails, visited, toVisit, cur, error, elapsed, fetched,
            merged, extracted, errorCalls, logged, pageCalls, outcome >>

\* website, lines 97-114: the options the command passes: both callbacks,
\* useBrowser as --browser says, and with it the handle of createBrowser()
WebsiteOptions ==
  { o \in OptionSets : o.onPageVisited /\ o.onError /\ o.browser = o.useBrowser }

\* page: the command reads --browser and --timeout only; the options of a
\* crawl are not used
PageOptions ==
  { o \in OptionSets :
      /\ o.maxDepth = 0 /\ o.maxPages = 0 /\ o.sameDomainOnly
      /\ ~o.onPageVisited /\ ~o.onError /\ o.browser = o.useBrowser }

\* a command is started: nothing has run yet, the crawler is not yet called
CliInit ==
  /\ startUrl \in StartUrls
  /\ command \in {"page", "website"}
  /\ options \in (IF command = "page" THEN PageOptions ELSE WebsiteOptions)
  /\ allEmails = {}
  /\ visited = {}
  /\ toVisit = << [url |-> startUrl, depth |-> 0] >>
  /\ pc = "idle"
  /\ cur = NoEntry
  /\ error = "none"
  /\ elapsed = 0
  /\ openPages = 0
  /\ fetched = <<>>
  /\ merged = {}
  /\ extracted = {}
  /\ failures = {}
  /\ errorCalls = {}
  /\ logged = {}
  /\ pageCalls = {}
  /\ outcome = Pending
  /\ cliPc = "start"
  /\ cliError = "none"
  /\ modules = Unread
  /\ created = NoBrowser
  /\ engine = "none"
  /\ closeCalls = 0
  /\ exitCode = Running

\* lines 34, 89: browser = await createBrowser(); when it throws, the
\* exception goes to the catch of the action: no try...finally is entered yet
CreateBrowser ==
  /\ cliPc = "start"
  /\ options.useBrowser
  /\ \E m \in ModuleSets :
       /\ modules' = m
       /\ created' = createBrowser(m)
       /\ IF createBrowser(m).kind = "browser"
            THEN /\ engine' = "open"
                 /\ cliPc' = "ready"
                 /\ cliError' = "none"
            ELSE /\ engine' = engine
                 /\ cliPc' = "catch"
                 /\ cliError' = "createBrowser"
  /\ UNCHANGED << startUrl, options, command, closeCalls, exitCode, crawl,
                  pc, openPages, failures >>

\* a try block without finally: the exception goes straight to the catch
CliOnThrowSkipsFinally == "catch"

\* lines 36-48: where an exception raised in the try block goes first
CliOnThrow == "finally"

\* scrapeEmailsFromUrl and scrapeEmailsFromPage (the single-page entry
\* points): how a call can end.  A page that cannot be fetched is a failure
\* of the call
scrapeEmailsFromUrl == {"returns", "throws"}
scrapeEmailsFromPage == {"returns", "throws"}

\* page, line 38: page = await browser.newPage()
PageNewPage ==
  /\ command = "page"
  /\ cliPc = "ready"
  /\ \/ /\ openPages' = openPages + 1
        /\ cliPc' = "scrape"
        /\ cliError' = cliError
     \/ /\ cliError' = "newPage"
        /\ cliPc' = CliOnThrow
        /\ openPages' = openPages
  /\ UNCHANGED << startUrl, options, command, modules, created, engine,
                  closeCalls, exitCode, crawl, pc, failures >>

\* page, lines 39-42: emails = await scrapeEmailsFromPage(page, url, ...):
\* the page is loaded and scraped, or the call throws
PageScrape ==
  /\ command = "page"
  /\ cliPc = "scrape"
  /\ \E r \in scrapeEmailsFromPage :
       IF r = "returns"
         THEN /\ cliPc' = "closePage"
              /\ UNCHANGED << cliError, failures >>
         ELSE /\ cliError' = "scrape"
              /\ failures' = failures \cup {[url |-> startUrl, stage |-> "fetch"]}
              /\ cliPc' = CliOnThrow
  /\ UNCHANGED << startUrl, options, command, modules, created, engine,
                  closeCalls, exitCode, crawl, pc, openPages >>

\* page, line 43: await page.close(), the last statement of the try block
PageClosePage ==
  /\ command = "page"
  /\ cliPc = "closePage"
  /\ openPages' = openPages - 1
  /\ \/ /\ cliPc' = "finally"
        /\ cliError' = cliError
     \/ /\ cliError' = "closePage"
        /\ cliPc' = CliOnThrow
  /\ UNCHANGED << startUrl, options, command, modules, created, engine,
                  closeCalls, exitCode, crawl, pc, failures >>

\* page, lines 50-54: emails = await scrapeEmailsFromUrl(url, { timeout }):
\* the page is fetched and scraped, or the call throws
PageScrapeUrl ==
  /\ command = "page"
  /\ cliPc = "start"
  /\ ~options.useBrowser
  /\ \E r \in scrapeEmailsFromUrl :
       IF r = "returns"
         THEN /\ cliPc' = "end"
              /\ UNCHANGED << cliError, failures >>
         ELSE /\ cliError' = "fetch"
              /\ failures' = failures \cup {[url |-> startUrl, stage |-> "fetch"]}
              /\ cliPc' = "catch"
  /\ UNCHANGED << startUrl, options, command, modules, created, engine,
                  closeCalls, exitCode, crawl, pc, openPages >>

\* website, line 97: scrapeEmailsFromWebsite(url, { ... }) is called
CallCrawl ==
  /\ command = "website"
  /\ cliPc = (IF options.useBrowser THEN "ready" ELSE "start")
  /\ pc = "idle"
  /\ pc' = "loop"
  /\ cliPc' = "crawl"
  /\ UNCHANGED << startUrl, options, command, cliError, modules, created,
                  engine, closeCalls, exitCode, crawl, openPages, failures >>

\* website, lines 97-127: the crawl has returned: the summary is printed and
\* the try block ends
CrawlReturns ==
  /\ command = "website"
  /\ cliPc = "crawl"
  /\ pc = "done"
  /\ cliPc' = "finally"
  /\ UNCHANGED << startUrl, options, command, cliError, modules, created,
                  engine, closeCalls, exitCode, crawl, pc, openPages, failures >>

\* lines 45-48, 127-132: finally { await browser.close() } (website: if a
\* browser was created); close() closes the engine with the pages still open
\* in it, and an exception it throws replaces the one in flight
CloseBrowser ==
  /\ cliPc = "finally"
  /\ IF created.kind = "browser"
       THEN /\ closeCalls' = closeCalls + 1
            /\ engine' = "closed"
            /\ openPages' = 0
            /\ \/ cliError' = cliError
               \/ cliError' = "close"
       ELSE UNCHANGED << closeCalls, engine, openPages, cliError >>
  /\ cliPc' = (IF cliError' = "none" THEN "end" ELSE "catch")
  /\ UNCHANGED << startUrl, options, command, modules, created, exitCode,
                  crawl, pc, failures >>

\* lines 57-63, 139: the results are printed, the action returns and the
\* process ends by itself
CliEnd ==
  /\ cliPc = "end"
  /\ cliPc' = "exit"
  /\ exitCode' = 0
  /\ UNCHANGED << startUrl, options, command, cliError, modules, created,
                  engine, closeCalls, crawl, pc, openPages, failures >>

\* a catch that prints the error and lets the process end by itself
CliCatchNoExit ==
  /\ cliPc = "catch"
  /\ cliPc' = "exit"
  /\ exitCode' = 0
  /\ UNCHANGED << startUrl, options, command, cliError, modules, created,
                  engine, closeCalls, crawl, pc, openPages, failures >>

\* lines 64-67, 133-136: the error is printed and process.exit(1) is called
CliCatch ==
  /\ cliPc = "catch"
  /\ cliPc' = "exit"
  /\ exitCode' = 1
  /\ UNCHANGED << startUrl, options, command, cliError, modules, created,
                  engine, closeCalls, crawl, pc, openPages, failures >>

\* the steps of a command; its callbacks (lines 104-113) print and count and
\* do not throw, so neither ProcessThrows nor CatchThrows is a step of it
CliNext ==
  \/ CreateBrowser
  \/ PageNewPage
  \/ PageScrape
  \/ PageClosePage
  \/ PageScrapeUrl
  \/ CallCrawl
  \/ CrawlReturns
  \/ CloseBrowser
  \/ CliEnd
  \/ CliCatch
  \/ Return
  \/ Skip
  \/ Visit
  \/ NewPage
  \/ GotoWait
  \/ GotoTimeout
  \/ Goto
  \/ Content
  \/ ScrapePage
  \/ ClosePage
  \/ FetchWait
  \/ Fetch
  \/ Text
  \/ Process
  \/ Catch

CliSpec == CliInit /\ [][CliNext]_vars

\* ------------------------------------------------------------------ claims
FetchedUrls == { fetched[i].url : i \in 1..Len(fetched) }
FailedUrls == { f.url : f \in failures }
FetchFailed == { f.url : f \in { g \in failures : g.stage = "fetch" } }

\* a frontier entry that would still be fetched: it passes the filters and
\* the page budget is not used up
FetchableLeft ==
  /\ Cardinality(visited) < options.maxPages
  /\ \E i \in 1..Len(toVisit) : ~Skipped(toVisit[i])

\* C1: the number of visited URLs, and so the number of fetch attempts, never
\* exceeds maxPages; with maxPages = 1 only the start URL is ever fetched
C1_PageBudget ==
  /\ Cardinality(visited) <= options.maxPages
  /\ Len(fetched) <= Cardinality(visited)
  /\ (options.maxPages = 1 => FetchedUrls \subseteq {startUrl})

\* the budget of one page is used up while fetchable links are still queued
C1_Witness ==
  /\ pc = "done"
  /\ options.maxPages = 1
  /\ Cardinality(visited) = 1
  /\ \E i \in 1..Len(toVisit) : toVisit[i].url \notin visited

\* C2: no URL is fetched at a depth above maxDepth, and processing a page at
\* depth maxDepth leaves the frontier as it was
C2_DepthCeiling ==
  /\ [](\A i \in 1..Len(fetched) : fetched[i].depth <= options.maxDepth)
  /\ [][(pc = "process" /\ cur.depth >= options.maxDepth) => toVisit' = toVisit]_vars

\* a page below the start page was fetched at depth maxDepth and processed
C2_Witness ==
  /\ options.maxDepth >= 1
  /\ \E i \in 1..Len(fetched) :
       fetched[i].depth = options.maxDepth /\ fetched[i].url \in merged

\* C3: with sameDomainOnly every URL handed to a fetch strategy has the
\* hostname of the start URL
C3_SameDomain ==
  options.sameDomainOnly =>
    \A i \in 1..Len(fetched) : fetched[i].url.host = startUrl.host

\* a same-domain crawl went beyond its start page although other hosts are
\* linked
C3_Witness ==
  /\ options.sameDomainOnly
  /\ startUrl.kind = "abs"
  /\ Len(fetched) >= 3

\* C4: no URL is fetched twice in one run
C4_FetchedOnce ==
  \A i, j \in 1..Len(fetched) : fetched[i].url = fetched[j].url => i = j

\* a URL was enqueued twice: it has been fetched and its second entry is
\* about to be dequeued
C4_Witness ==
  /\ pc = "loop"
  /\ LoopCond
  /\ Head(toVisit).url \in FetchedUrls

\* C5 as stated: once a fetch has failed, the run still does not end while a
\* fetchable entry is left, and the failed URL contributes no email
C5_Original ==
  /\ FetchFailed \cap merged = {}
  /\ (outcome.state # "pending" /\ FetchFailed # {}) => ~FetchableLeft

\* C5 as amended: the same of a run in which onError does not throw, whose
\* result then holds the emails of the pages fetched after the failure
C5_ContinuesAfterFailure ==
  /\ FetchFailed \cap merged = {}
  /\ (outcome.state = "resolved" /\ FetchFailed # {}) =>
       (~FetchableLeft /\ outcome.value = extracted)

\* a fetch failed, a later page was fetched and its email is in the result
C5_Witness ==
  /\ outcome.state = "resolved"
  /\ outcome.value # {}
  /\ \E i, j \in 1..Len(fetched) :
       /\ i < j
       /\ fetched[i].url \in FetchFailed
       /\ fetched[j].url \in merged

\* C6 as stated: the promise never rejects after a page has failed
C6_Original == FailedUrls # {} => outcome.state # "rejected"

\* C6 as amended: every failure of a page is routed to onError with the page's
\* URL when onError is supplied and logged otherwise; the failure itself is
\* never propagated, the promise rejects only with an exception of onError
C6_FailureRouted ==
  /\ pc \notin {"close", "catch"} =>
       FailedUrls = (IF options.onError THEN errorCalls ELSE logged)
  /\ (IF options.onError THEN logged ELSE errorCalls) = {}
  /\ outcome.state = "rejected" => (options.onError /\ outcome.reason = "onError")

\* a run that met failing pages has returned, having reported them
C6_Witness ==
  /\ outcome.state = "resolved"
  /\ Cardinality(FailedUrls) >= 2
  /\ (errorCalls # {} \/ logged # {})

\* C7 as stated: with useBrowser and no handle no page succeeds and no email
\* is collected
C7_Original ==
  (options.useBrowser /\ ~options.browser) => (merged = {} /\ allEmails = {})

\* C7 as amended: with useBrowser and no handle the run never opens a browser
\* page; every visited URL is handed to the HTTP fetch
C7_FallsBackToHttp ==
  (options.useBrowser /\ ~options.browser) =>
    /\ openPages = 0
    /\ pc \notin {"newPage", "goto", "content", "scrape", "close"}
    /\ FetchedUrls = visited

\* such a run fetched a page over HTTP and collected its email
C7_Witness ==
  /\ options.useBrowser
  /\ ~options.browser
  /\ merged # {}
  /\ allEmails # {}

\* C8: at most one browser page is open (obtained and not yet closed), and
\* only between newPage() and close(); none at the loop head or at the end
C8_PageClosed ==
  /\ openPages \in {0, 1}
  /\ openPages = 1 <=> pc \in {"goto", "content", "scrape", "close"}

\* a page whose navigation or extraction threw has been closed
C8_Witness ==
  /\ BrowserMode
  /\ pc = "catch"
  /\ error \in {"timeout", "navigation", "content", "scrape"}
  /\ openPages = 0

\* C9 as stated: the run eventually returns
C9_Original == <>(pc = "done")

\* C9 as amended: the run eventually settles, and when it returns the
\* frontier is empty or the page budget is used up
C9_Terminates ==
  /\ <>(outcome.state # "pending")
  /\ [](pc = "done" => (toVisit = <<>> \/ Cardinality(visited) = options.maxPages))

\* a run returned on its page budget with entries left in the frontier
C9_Witness ==
  /\ pc = "done"
  /\ options.maxPages >= 2
  /\ Cardinality(visited) = options.maxPages
  /\ toVisit # <<>>

\* C10: a fetch that is being waited for has waited at most the configured
\* timeout, in either strategy
C10_Original == pc \in {"goto", "fetch"} => elapsed <= options.timeout

\* the depths of a sequence of entries never go down
NonDecreasing(entries) ==
  \A i, j \in 1..Len(entries) : i <= j => entries[i].depth <= entries[j].depth

\* C11: pages are fetched level by level: the depths of the fetched pages
\* never go down, the frontier holds its entries in order of depth, and no
\* entry still in the frontier is shallower than a page already fetched
C11_LevelByLevel ==
  /\ NonDecreasing(fetched)
  /\ NonDecreasing(toVisit)
  /\ \A i \in 1..Len(fetched), j \in 1..Len(toVisit) :
       fetched[i].depth <= toVisit[j].depth

\* two pages of level 1 have been fetched while an entry of level 2 waits
C11_Witness ==
  /\ \E i, j \in 1..Len(fetched) :
       i < j /\ fetched[i].depth = 1 /\ fetched[j].depth = 1
  /\ \E k \in 1..Len(toVisit) : toVisit[k].depth = 2

\* C12: the result is the union of the emails extracted from the pages that
\* were fetched and extracted without failure: allEmails is that union all
\* along, the promise resolves with it, and no page whose fetch failed is
\* among the contributors
C12_ResultIsUnion ==
  /\ allEmails = extracted
  /\ outcome.state = "resolved" => outcome.value = extracted
  /\ merged \subseteq FetchedUrls \ FetchFailed
  /\ extracted # {} => merged # {}

\* a run with a failed page and two pages merged returned an email
C12_Witness ==
  /\ outcome.state = "resolved"
  /\ outcome.value = Emails
  /\ Cardinality(merged) >= 2
  /\ FetchFailed # {}

\* the command has ended
Exited == cliPc = "exit"

\* C13 as stated: a command whose browser is unavailable, or whose fetch of
\* the URL of the command line failed, ends with a non-zero exit code
C13_Original ==
  (Exited /\ (created.kind = "error" \/ startUrl \in FetchFailed)) => exitCode # 0

\* C13 as amended: an unavailable browser ends either command with exit code
\* 1, and so does a failed fetch in page; in website a failed fetch of the
\* start URL is reported through onError, and the exit code is 1 only when
\* closing the browser failed
C13_ExitCode ==
  Exited =>
    /\ created.kind = "error" => exitCode = 1
    /\ (command = "page" /\ startUrl \in FetchFailed) => exitCode = 1
    /\ (command = "website" /\ startUrl \in FetchFailed) =>
         /\ startUrl \in errorCalls
         /\ cliError \in {"none", "close"}
         /\ exitCode = (IF cliError = "close" THEN 1 ELSE 0)

\* website has ended with exit code 0 although the fetch of its URL failed
C13_Witness ==
  /\ Exited
  /\ command = "website"
  /\ startUrl \in FetchFailed
  /\ exitCode = 0

\* C14: browser.close() is called at most once, only on a browser that
\* createBrowser() returned and only when the crawl or the scrape is over;
\* a command that created a browser has called it once when it ends; when
\* createBrowser() threw nothing was crawled or scraped
C14_BrowserClosedOnce ==
  /\ closeCalls <= 1
  /\ closeCalls = 1 <=> engine = "closed"
  /\ engine = "closed" =>
       /\ created.kind = "browser"
       /\ pc \in {"idle", "done"}
       /\ cliPc \in {"end", "catch", "exit"}
  /\ (Exited /\ created.kind = "browser") => closeCalls = 1
  /\ created.kind = "error" =>
       /\ pc = "idle"
       /\ visited = {} /\ fetched = <<>> /\ failures = {} /\ openPages = 0
       /\ cliPc \in {"catch", "exit"}
       /\ closeCalls = 0

\* page has ended after scrapeEmailsFromPage threw, its browser closed once
C14_Witness ==
  /\ Exited
  /\ command = "page"
  /\ startUrl \in FetchFailed
  /\ closeCalls = 1
  /\ exitCode = 1

\* the engines named in a sequence
Named(engines) == { engines[i] : i \in 1..Len(engines) }

\* C15: Puppeteer is imported exactly when Playwright cannot be imported; an
\* engine that is present and fails to launch gives the 'failed to launch'
\* error of that engine and the other engine is not launched; with neither
\* present the error is 'no browser library found'; otherwise the browser of
\* the first engine present is returned
C15_EngineOrder ==
  created.kind # "none" =>
    /\ "playwright" \in Named(created.imports)
    /\ "puppeteer" \in Named(created.imports) <=> modules.playwright = "absent"
    /\ modules.playwright = "launches" =>
         (created.kind = "browser" /\ created.engine = "playwright")
    /\ modules.playwright = "fails" =>
         /\ created.kind = "error" /\ created.message = "Failed to launch"
         /\ created.engine = "playwright"
         /\ created.launches = <<"playwright">>
    /\ (modules.playwright = "absent" /\ modules.puppeteer = "launches") =>
         (created.kind = "browser" /\ created.engine = "puppeteer")
    /\ (modules.playwright = "absent" /\ modules.puppeteer = "fails") =>
         /\ created.kind = "error" /\ created.message = "Failed to launch"
         /\ created.engine = "puppeteer"
         /\ created.launches = <<"puppeteer">>
    /\ (modules.playwright = "absent" /\ modules.puppeteer = "absent") =>
         /\ created.kind = "error"
         /\ created.message = "No browser library found"
         /\ created.launches = <<>>

\* Playwright is installed and fails to launch, Puppeteer would have launched
C15_Witness ==
  /\ modules.playwright = "fails"
  /\ modules.puppeteer = "launches"
  /\ created.kind = "error"
  /\ Exited

\* C16: no step of scrapeEmailsFromWebsite changes the state of the browser
\* engine or calls browser.close(), and the engine of a supplied handle is
\* open all along
C16_EngineUntouched ==
  /\ [][engine' = engine /\ closeCalls' = closeCalls]_vars
  /\ [](engine = (IF options.browser THEN "open" ELSE "none") /\ closeCalls = 0)

\* a browser crawl with a failed page and a merged page has returned
C16_Witness ==
  /\ BrowserMode
  /\ pc = "done"
  /\ FailedUrls # {}
  /\ merged # {}
  /\ engine = "open"

\* no callback has thrown so far
NoCallbackThrew ==
  /\ \A f \in failures : f.stage # "callback"
  /\ outcome.state # "rejected"

\* the URL of the iteration under way, if any
InProgress == IF cur = NoEntry THEN {} ELSE {cur.url}

\* C17: with both callbacks supplied and not throwing, every visited URL but
\* the one in progress was passed to exactly one of onPageVisited and onError,
\* so that at the end of the run the two counts add up to visited.size, which
\* is at most maxPages; a step that marks a URL visited adds exactly one, and
\* a skipped entry leaves the budget and the callbacks alone
C17_OneCallbackPerVisit ==
  /\ []((options.onPageVisited /\ options.onError /\ NoCallbackThrew) =>
          /\ pageCalls \cap errorCalls = {}
          /\ pageCalls \cup errorCalls = visited \ InProgress
          /\ Cardinality(visited) <= options.maxPages
          /\ pc = "done" =>
               Cardinality(pageCalls) + Cardinality(errorCalls) = Cardinality(visited))
  /\ [][IF pc = "loop" /\ pc' \notin {"loop", "done"}
          THEN Cardinality(visited') = Cardinality(visited) + 1
          ELSE visited' = visited]_vars
  /\ [][(pc = "loop" /\ pc' = "loop") =>
          (pageCalls' = pageCalls /\ errorCalls' = errorCalls)]_vars

\* a run with two pages reported to onPageVisited and one to onError returned
C17_Witness ==
  /\ pc = "done"
  /\ options.onPageVisited
  /\ options.onError
  /\ NoCallbackThrew
  /\ Cardinality(pageCalls) >= 2
  /\ Cardinality(errorCalls) >= 1

\* the form normalizeUrl gives a URL string
Normalized(url) == url = normalizeUrl(url, url)

\* C18: every visited URL, the start URL included, is in the form the
\* normalizer produces, and no two fetched URLs are spellings of one page
C18_Original ==
  /\ \A url \in visited : Normalized(url)
  /\ \A i, j \in 1..Len(fetched) :
       ( /\ normalizeUrl(fetched[i].url, fetched[i].url) # Null
         /\ normalizeUrl(fetched[i].url, fetched[i].url)
              = normalizeUrl(fetched[j].url, fetched[j].url) ) => i = j

\* C19: with sameDomainOnly every entry of the frontier has the hostname of
\* the start URL
C19_FrontierSameDomain ==
  options.sameDomainOnly =>
    \A i \in 1..Len(toVisit) : toVisit[i].url.host = startUrl.host

\* a same-domain crawl has processed a page and holds discovered links
C19_Witness ==
  /\ options.sameDomainOnly
  /\ merged # {}
  /\ \E i \in 1..Len(toVisit) : toVisit[i].depth >= 1

\* C20 as stated: a run on an unparseable start URL does not reject; it
\* collects no email, enqueues nothing and reports at most its start URL
C20_Original ==
  startUrl.kind = "bad" =>
    /\ outcome.state # "rejected"
    /\ allEmails = {}
    /\ \A i \in 1..Len(toVisit) : toVisit[i].url = startUrl
    /\ errorCalls \cup logged \subseteq {startUrl}

\* C20 as amended: such a run collects no email, merges no page, enqueues
\* nothing, fails at most once and reports that failure of its start URL; it
\* resolves with the empty set, or rejects with the exception of onError
C20_BadStartUrl ==
  startUrl.kind = "bad" =>
    /\ allEmails = {}
    /\ merged = {}
    /\ pageCalls = {}
    /\ \A i \in 1..Len(toVisit) : toVisit[i] = [url |-> startUrl, depth |-> 0]
    /\ Len(fetched) <= 1
    /\ FailedUrls \subseteq {startUrl}
    /\ errorCalls \cup logged \subseteq {startUrl}
    /\ outcome.state = "resolved" => outcome.value = {}
    /\ outcome.state = "rejected" => (options.onError /\ outcome.reason = "onError")

\* a run on an unparseable start URL has reported it and returned
C20_Witness ==
  /\ startUrl.kind = "bad"
  /\ outcome.state = "resolved"
  /\ errorCalls = {startUrl}

\* the entries a step has added behind the frontier
Added(before, after) == { after[i] : i \in (Len(before) + 1)..Len(after) }

\* C21: with maxDepth >= 0 every entry of the frontier has a depth between 0
\* and maxDepth, an entry added while a page is processed has the depth of
\* that page plus one, and no entry is dropped at dequeue for its depth; with
\* maxDepth < 0 nothing is visited or fetched and the result is empty
C21_DepthRange ==
  /\ [](options.maxDepth >= 0 =>
          \A i \in 1..Len(toVisit) :
            toVisit[i].depth >= 0 /\ toVisit[i].depth <= options.maxDepth)
  /\ [][pc = "process" =>
          \A entry \in Added(toVisit, toVisit') : entry.depth = cur.depth + 1]_vars
  /\ [][(options.maxDepth >= 0 /\ pc = "loop" /\ pc' = "loop") =>
          (Head(toVisit).depth <= options.maxDepth /\ Head(toVisit).url \in visited)]_vars
  /\ [](options.maxDepth < 0 =>
          /\ visited = {} /\ fetched = <<>> /\ allEmails = {}
          /\ outcome.state # "rejected"
          /\ outcome.state = "resolved" => outcome.value = {})

\* an entry of depth maxDepth = 2, discovered on a page of depth 1, is at the
\* head of the frontier and is about to be dropped as already visited
C21_Witness ==
  /\ options.maxDepth = 2
  /\ pc = "loop"
  /\ LoopCond
  /\ Head(toVisit).depth = 2
  /\ Head(toVisit).url \in visited

\* the URLs for which onPageVisited threw
CallbackFailed == { f.url : f \in { g \in failures : g.stage = "callback" } }

\* C22 as stated: once onPageVisited has thrown for a page, the page's emails
\* are merged and its links are not enqueued, onError (when supplied) is
\* called with its URL, and the run goes on: the promise does not reject
C22_Original ==
  options.onError =>
    /\ CallbackFailed \subseteq merged
    /\ CallbackFailed \ InProgress \subseteq errorCalls
    /\ CallbackFailed # {} => outcome.state # "rejected"

\* C22 as amended: onPageVisited is called after the merge and before the
\* links are read: the step in which it throws merges the page's emails and
\* leaves the frontier as it is, and so does the catch that follows; emails
\* are never taken out of the result; the failure is reported for the same
\* URL, to onError when supplied and to the log otherwise; the run then goes
\* on with the next entry, or rejects with the exception of onError
C22_CallbackFailure ==
  /\ [][(pc = "process" /\ pc' = "catch") =>
          /\ toVisit' = toVisit
          /\ cur.url \in merged' /\ cur.url \in pageCalls'
          /\ allEmails' = extracted'
          /\ error' = "onPageVisited"]_vars
  /\ [][(pc = "catch" /\ error = "onPageVisited") =>
          /\ toVisit' = toVisit
          /\ IF options.onError THEN cur.url \in errorCalls'
                                ELSE cur.url \in logged'
          /\ \/ pc' = "loop"
             \/ pc' = "rejected" /\ options.onError /\ outcome'.reason = "onError"]_vars
  /\ [][allEmails \subseteq allEmails']_vars
  /\ [](/\ CallbackFailed \subseteq merged \cap pageCalls
        /\ CallbackFailed \ InProgress \subseteq
             (IF options.onError THEN errorCalls ELSE logged))

\* onPageVisited threw for a page whose email is in the result; onError was
\* called for it and a page dequeued after it was fetched and merged
C22_Witness ==
  /\ outcome.state = "resolved"
  /\ outcome.value # {}
  /\ \E i, j \in 1..Len(fetched) :
       /\ i < j
       /\ fetched[i].url \in CallbackFailed \cap errorCalls
       /\ fetched[j].url \in merged \ CallbackFailed

====
